---- MODULE Spec2Model ----
(***************************************************************************)
(* wake-queue: a lock-free queue of wakers (src/lib.rs).                    *)
(*                                                                         *)
(* Producer threads call WakerQueue::register, drainer threads call        *)
(* WakerQueue::wake_all.  Every atomic operation of the source (a swap, a  *)
(* store, a load, a compare-exchange) is one step of the model, and the    *)
(* steps of the threads interleave.  A pointer is a pair <<address, id>>:  *)
(* the address is what the code stores and compares, the id names the      *)
(* registration whose node the pointer was taken from, so that a pointer   *)
(* that outlives its node (its address freed, or handed out again by the   *)
(* allocator) can be told from a pointer to the node living there now.     *)
(*                                                                         *)
(* The atomic operations take effect one at a time, in the order of the    *)
(* interleaving; the Ordering argument each of them is given in the source *)
(* is not part of these steps.  A spin loop that finds nothing to do (a    *)
(* failed compare-exchange, a null head, a null next) leaves the state as  *)
(* it is, so a thread that spins for ever shows as a thread that never     *)
(* takes another step.                                                     *)
(***************************************************************************)
EXTENDS Integers, Sequences, FiniteSets, TLC

\* number of producer threads
NumProducers == 2
\* number of register calls the producer threads make, all together
MaxReg == 4
\* number of heap addresses the allocator hands out
NumAddr == 3
\* number of drainer threads
NumDrainers == 2

Producers == 1..NumProducers
Drainers == 1..NumDrainers
Addr == 1..NumAddr
Cb == 1..MaxReg

\* null_mut()
Null == <<0, 0>>

VARIABLES
    head,       \* WakerQueue.head
    tail,       \* WakerQueue.tail
    heap,       \* the WakerNode stored at each address: next and waker
    owner,      \* the registration whose node lives at each address, 0 when free
    rpc,        \* where each producer is in register
    rnode,      \* register's local `node`
    rprev,      \* register's local `prev_tail`
    nreg,       \* register calls begun so far
    wpc,        \* where each drainer is in wake_all
    wtail,      \* wake_all's local `tail`
    whead,      \* wake_all's local `head`
    allowed,    \* the drainer threads that call wake_all
    callers,    \* the producer threads that call register
    dpc,        \* where the owner of the queue is in Drop::drop
    dhead,      \* drop's local `head`
    dtail,      \* drop's local `tail`
    dlive,      \* history: the registrations whose node was allocated when drop began
    dfreed,     \* history: the registrations whose node drop deallocated
    pending,    \* history: callbacks in the order of their tail swaps, since the last wake_all tail swap
    wdue,       \* history: `pending` as it was at the tail swap of the drainer's current call
    winv,       \* history: callbacks the drainer's current call has invoked, in order
    wquiet,     \* history: no register was in flight at any time of the current call
    invoked,    \* history: how often each callback was invoked (counted up to 2)
    freed,      \* history: the registrations whose node was deallocated
    uaf,        \* history: some step touched a node that was no longer allocated
    dfree       \* history: some step deallocated a node that was no longer allocated

vars == <<head, tail, heap, owner, rpc, rnode, rprev, nreg, wpc, wtail, whead,
          allowed, callers, dpc, dhead, dtail, dlive, dfreed,
          pending, wdue, winv, wquiet, invoked, freed, uaf, dfree>>

\* what register and wake_all leave alone: who calls them, and the state of drop
setup == <<callers, dpc, dhead, dtail, dlive, dfreed>>

ghost == <<pending, wdue, winv, wquiet, invoked, freed, uaf, dfree>>

----------------------------------------------------------------------------
(* The Ordering argument of each atomic operation of register and wake_all. *)

\* line 76: self.tail.swap(node, Ordering::Relaxed)
Ord_Register_TailSwap == "Relaxed"
\* line 80: prev.next.store(node, Ordering::Relaxed)
Ord_Register_NextStore == "Relaxed"
\* lines 89-94: self.head.compare_exchange_weak(null, node, Ordering::Relaxed, Ordering::Relaxed)
Ord_Register_HeadCas == "Relaxed"
\* lines 108-110: self.tail.swap(null, Ordering::Relaxed)
Ord_WakeAll_TailSwap == "Relaxed"
\* lines 117-119 and 124-126: self.head.swap(null, Ordering::Relaxed)
Ord_WakeAll_HeadSwap == "Relaxed"
\* line 135: head.next.load(Ordering::Relaxed)
Ord_WakeAll_NextLoad == "Relaxed"

\* the orderings under which a store or read-modify-write is a release operation
IsRelease(o) == o \in {"Release", "AcqRel", "SeqCst"}

\* the orderings under which a load or read-modify-write is an acquire operation
IsAcquire(o) == o \in {"Acquire", "AcqRel", "SeqCst"}

\* what the publishing thread wrote before the operation ordered pub happens before what
\* the observing thread does after the operation ordered obs that reads its value
Synchronizes(pub, obs) == IsRelease(pub) /\ IsAcquire(obs)

----------------------------------------------------------------------------
\* WakerNode { next: null, waker: Some(waker) }
NewNode == [next |-> Null, waker |-> TRUE]

\* the memory of an address that holds no node
NoNode == [next |-> Null, waker |-> FALSE]

\* ptr.is_null()
IsNull(ptr) == ptr[1] = 0

\* pointer comparison: addresses only
SameAddr(p, q) == p[1] = q[1]

\* the pointer refers to the node it was taken from
Valid(ptr) == ptr[1] # 0 /\ owner[ptr[1]] = ptr[2]

\* the id of the next callback: registrations are numbered in the order of their tail swaps
NextCb == nreg + 1

InFlightReg(p) == rpc[p] # "idle"
InFlightWake(d) == wpc[d] \in {"head", "wake", "next"}

Bump(n) == IF n < 2 THEN n + 1 ELSE 2

----------------------------------------------------------------------------
\* WakerQueue::new(), and no thread inside a call
InitQueue ==
    /\ head = Null
    /\ tail = Null
    /\ heap = [a \in Addr |-> NoNode]
    /\ owner = [a \in Addr |-> 0]
    /\ rpc = [p \in Producers |-> "idle"]
    /\ rnode = [p \in Producers |-> Null]
    /\ rprev = [p \in Producers |-> Null]
    /\ nreg = 0
    /\ wpc = [d \in Drainers |-> "idle"]
    /\ wtail = [d \in Drainers |-> Null]
    /\ whead = [d \in Drainers |-> Null]
    /\ dpc = "live"
    /\ dhead = Null
    /\ dtail = Null
    /\ dlive = {}
    /\ dfreed = {}
    /\ pending = <<>>
    /\ wdue = [d \in Drainers |-> <<>>]
    /\ winv = [d \in Drainers |-> <<>>]
    /\ wquiet = [d \in Drainers |-> TRUE]
    /\ invoked = [c \in Cb |-> 0]
    /\ freed = {}
    /\ uaf = FALSE
    /\ dfree = FALSE

\* any number of producers, a single drainer
Init ==
    /\ InitQueue
    /\ allowed = {1}
    /\ callers = Producers

\* any number of producers, and every drainer thread calls wake_all
MultiInit ==
    /\ InitQueue
    /\ allowed = Drainers
    /\ callers = Producers

\* a single producer and a single drainer
SoloInit ==
    /\ InitQueue
    /\ allowed = {1}
    /\ callers = {1}

----------------------------------------------------------------------------
(* register, lines 70-102 *)

\* lines 71-76: Box::new, then prev_tail = self.tail.swap(node)
Register_SwapTail(p) ==
    /\ dpc = "live"
    /\ p \in callers
    /\ rpc[p] = "idle"
    /\ nreg < MaxReg
    /\ \E a \in Addr :
          /\ owner[a] = 0
          /\ LET node == <<a, NextCb>> IN
                /\ owner' = [owner EXCEPT ![a] = NextCb]
                /\ heap' = [heap EXCEPT ![a] = NewNode]
                /\ rnode' = [rnode EXCEPT ![p] = node]
                /\ tail' = node
                /\ pending' = Append(pending, NextCb)
    /\ rprev' = [rprev EXCEPT ![p] = tail]
    /\ rpc' = [rpc EXCEPT ![p] = IF IsNull(tail) THEN "cas" ELSE "link"]
    /\ nreg' = nreg + 1
    /\ wquiet' = [d \in Drainers |-> wquiet[d] /\ ~InFlightWake(d)]
    /\ UNCHANGED <<head, wpc, wtail, whead, allowed, wdue, winv, invoked, freed, uaf, dfree>>
    /\ UNCHANGED setup

\* mutant: the link is stored the wrong way round, node.next.store(prev_tail)
M_Register_Link_Reversed(p) ==
    /\ rpc[p] = "link"
    /\ heap' = [heap EXCEPT ![rnode[p][1]].next = rprev[p]]
    /\ rpc' = [rpc EXCEPT ![p] = "idle"]
    /\ rnode' = [rnode EXCEPT ![p] = Null]
    /\ rprev' = [rprev EXCEPT ![p] = Null]
    /\ UNCHANGED <<head, tail, owner, nreg, wpc, wtail, whead, allowed,
                   pending, wdue, winv, wquiet, invoked, freed, uaf, dfree>>
    /\ UNCHANGED setup

\* line 80: prev.next.store(node)
Register_Link(p) ==
    /\ rpc[p] = "link"
    /\ LET a == rprev[p][1] IN
          IF Valid(rprev[p])
          THEN /\ heap' = [heap EXCEPT ![a].next = rnode[p]]
               /\ uaf' = uaf
          ELSE \* the previous tail was deallocated: the store lands in whatever is there now
               /\ heap' = IF owner[a] # 0 THEN [heap EXCEPT ![a].next = rnode[p]] ELSE heap
               /\ uaf' = TRUE
    /\ rpc' = [rpc EXCEPT ![p] = "idle"]
    /\ rnode' = [rnode EXCEPT ![p] = Null]
    /\ rprev' = [rprev EXCEPT ![p] = Null]
    /\ UNCHANGED <<head, tail, owner, nreg, wpc, wtail, whead, allowed,
                   pending, wdue, winv, wquiet, invoked, freed, dfree>>
    /\ UNCHANGED setup

\* mutant: the arguments of the compare-exchange swapped, compare_exchange_weak(node, null)
M_Register_Cas_Swapped(p) ==
    /\ rpc[p] = "cas"
    /\ IF SameAddr(head, rnode[p])
       THEN /\ head' = Null
            /\ rpc' = [rpc EXCEPT ![p] = "idle"]
            /\ rnode' = [rnode EXCEPT ![p] = Null]
       ELSE UNCHANGED <<head, rpc, rnode>>
    /\ UNCHANGED <<tail, heap, owner, rprev, nreg, wpc, wtail, whead, allowed, ghost>>
    /\ UNCHANGED setup

\* lines 86-99: loop { if self.head.compare_exchange_weak(null, node).is_ok() { break } }
Register_Cas(p) ==
    /\ rpc[p] = "cas"
    /\ IF IsNull(head)
       THEN /\ head' = rnode[p]
            /\ rpc' = [rpc EXCEPT ![p] = "idle"]
            /\ rnode' = [rnode EXCEPT ![p] = Null]
       ELSE UNCHANGED <<head, rpc, rnode>>
    /\ UNCHANGED <<tail, heap, owner, rprev, nreg, wpc, wtail, whead, allowed, ghost>>
    /\ UNCHANGED setup

----------------------------------------------------------------------------
(* wake_all, lines 107-147 *)

\* mutant: the tail is read with load() and left in place
M_WakeAll_SwapTail_Load(d) ==
    /\ dpc = "live"
    /\ d \in allowed
    /\ wpc[d] \in {"idle", "done"}
    /\ wtail' = [wtail EXCEPT ![d] = tail]
    /\ tail' = tail
    /\ wpc' = [wpc EXCEPT ![d] = IF IsNull(tail) THEN "done" ELSE "head"]
    /\ wdue' = [wdue EXCEPT ![d] = pending]
    /\ pending' = <<>>
    /\ winv' = [winv EXCEPT ![d] = <<>>]
    /\ wquiet' = [wquiet EXCEPT ![d] = \A p \in Producers : ~InFlightReg(p)]
    /\ UNCHANGED <<head, heap, owner, rpc, rnode, rprev, nreg, whead, allowed,
                   invoked, freed, uaf, dfree>>
    /\ UNCHANGED setup

\* mutant: the early return on a null tail is missing
M_WakeAll_SwapTail_NoReturn(d) ==
    /\ dpc = "live"
    /\ d \in allowed
    /\ wpc[d] \in {"idle", "done"}
    /\ wtail' = [wtail EXCEPT ![d] = tail]
    /\ tail' = Null
    /\ wpc' = [wpc EXCEPT ![d] = "head"]
    /\ wdue' = [wdue EXCEPT ![d] = pending]
    /\ pending' = <<>>
    /\ winv' = [winv EXCEPT ![d] = <<>>]
    /\ wquiet' = [wquiet EXCEPT ![d] = \A p \in Producers : ~InFlightReg(p)]
    /\ UNCHANGED <<head, heap, owner, rpc, rnode, rprev, nreg, whead, allowed,
                   invoked, freed, uaf, dfree>>
    /\ UNCHANGED setup

\* lines 108-115: tail = self.tail.swap(null); if tail.is_null() { return }
WakeAll_SwapTail(d) ==
    /\ dpc = "live"
    /\ d \in allowed
    /\ wpc[d] \in {"idle", "done"}
    /\ wtail' = [wtail EXCEPT ![d] = tail]
    /\ tail' = Null
    /\ wpc' = [wpc EXCEPT ![d] = IF IsNull(tail) THEN "done" ELSE "head"]
    /\ wdue' = [wdue EXCEPT ![d] = pending]
    /\ pending' = <<>>
    /\ winv' = [winv EXCEPT ![d] = <<>>]
    /\ wquiet' = [wquiet EXCEPT ![d] = \A p \in Producers : ~InFlightReg(p)]
    /\ UNCHANGED <<head, heap, owner, rpc, rnode, rprev, nreg, whead, allowed,
                   invoked, freed, uaf, dfree>>
    /\ UNCHANGED setup

\* mutant: the head is read with load() and left in place
M_WakeAll_SwapHead_Load(d) ==
    /\ wpc[d] = "head"
    /\ whead' = [whead EXCEPT ![d] = head]
    /\ head' = head
    /\ wpc' = [wpc EXCEPT ![d] = IF IsNull(head) THEN "head" ELSE "wake"]
    /\ UNCHANGED <<tail, heap, owner, rpc, rnode, rprev, nreg, wtail, allowed, ghost>>
    /\ UNCHANGED setup

\* lines 117-127: head = self.head.swap(null); while head.is_null() { head = self.head.swap(null) }
WakeAll_SwapHead(d) ==
    /\ wpc[d] = "head"
    /\ whead' = [whead EXCEPT ![d] = head]
    /\ head' = Null
    /\ wpc' = [wpc EXCEPT ![d] = IF IsNull(head) THEN "head" ELSE "wake"]
    /\ UNCHANGED <<tail, heap, owner, rpc, rnode, rprev, nreg, wtail, allowed, ghost>>
    /\ UNCHANGED setup

\* the callbacks head.waker.take().map(|w| w.wake()) may invoke through ptr: the node's
\* own when the pointer is valid and the waker is still there; through a dangling pointer,
\* the waker of the node now living at the address, the stale waker, or none
WakeTargets(ptr) ==
    IF Valid(ptr)
    THEN IF heap[ptr[1]].waker THEN {ptr[2]} ELSE {0}
    ELSE {0, ptr[2]} \cup (IF heap[ptr[1]].waker THEN {owner[ptr[1]]} ELSE {})

\* the heap after head.waker.take() through ptr
TakeWaker(h, ptr) ==
    IF owner[ptr[1]] # 0 THEN [h EXCEPT ![ptr[1]].waker = FALSE] ELSE h

\* the heap and the owners after drop(Box) of ptr
FreeHeap(h, ptr) == [h EXCEPT ![ptr[1]] = NoNode]
FreeOwner(ptr) == [owner EXCEPT ![ptr[1]] = 0]
FreeFreed(ptr) == IF Valid(ptr) THEN freed \cup {ptr[2]} ELSE freed

\* the callback c is invoked by drainer d (c = 0: none)
Invoke(d, c) ==
    /\ invoked' = IF c = 0 THEN invoked ELSE [invoked EXCEPT ![c] = Bump(@)]
    /\ winv' = IF c = 0 THEN winv ELSE [winv EXCEPT ![d] = Append(@, c)]

\* mutant: the loop wakes a node only when another follows: the captured tail is not woken
M_WakeAll_Wake_SkipLast(d) ==
    /\ wpc[d] = "wake"
    /\ IF SameAddr(whead[d], wtail[d])
       THEN /\ UNCHANGED <<invoked, winv>>
            /\ heap' = FreeHeap(heap, whead[d])
            /\ owner' = FreeOwner(whead[d])
            /\ freed' = FreeFreed(whead[d])
            /\ dfree' = (dfree \/ ~Valid(whead[d]))
            /\ whead' = [whead EXCEPT ![d] = Null]
            /\ wpc' = [wpc EXCEPT ![d] = "done"]
       ELSE /\ \E c \in WakeTargets(whead[d]) : Invoke(d, c)
            /\ heap' = TakeWaker(heap, whead[d])
            /\ wpc' = [wpc EXCEPT ![d] = "next"]
            /\ UNCHANGED <<owner, freed, dfree, whead>>
    /\ uaf' = (uaf \/ ~Valid(whead[d]))
    /\ UNCHANGED <<head, tail, rpc, rnode, rprev, nreg, wtail, allowed,
                   pending, wdue, wquiet>>
    /\ UNCHANGED setup

\* mutant: the node is dropped as soon as its waker was woken, before its next is read
M_WakeAll_Wake_DropEarly(d) ==
    /\ wpc[d] = "wake"
    /\ \E c \in WakeTargets(whead[d]) : Invoke(d, c)
    /\ heap' = FreeHeap(TakeWaker(heap, whead[d]), whead[d])
    /\ owner' = FreeOwner(whead[d])
    /\ freed' = FreeFreed(whead[d])
    /\ dfree' = (dfree \/ ~Valid(whead[d]))
    /\ IF SameAddr(whead[d], wtail[d])
       THEN /\ whead' = [whead EXCEPT ![d] = Null]
            /\ wpc' = [wpc EXCEPT ![d] = "done"]
       ELSE /\ wpc' = [wpc EXCEPT ![d] = "next"]
            /\ UNCHANGED whead
    /\ uaf' = (uaf \/ ~Valid(whead[d]))
    /\ UNCHANGED <<head, tail, rpc, rnode, rprev, nreg, wtail, allowed,
                   pending, wdue, wquiet>>
    /\ UNCHANGED setup

\* lines 130-133 and 145-147: Box::from_raw(head); head.waker.take().map(|w| w.wake());
\* then the test head != tail; when it fails, wake_all returns and drops head
WakeAll_Wake(d) ==
    /\ wpc[d] = "wake"
    /\ \E c \in WakeTargets(whead[d]) : Invoke(d, c)
    /\ IF SameAddr(whead[d], wtail[d])
       THEN /\ heap' = FreeHeap(TakeWaker(heap, whead[d]), whead[d])
            /\ owner' = FreeOwner(whead[d])
            /\ freed' = FreeFreed(whead[d])
            /\ dfree' = (dfree \/ ~Valid(whead[d]))
            /\ whead' = [whead EXCEPT ![d] = Null]
            /\ wpc' = [wpc EXCEPT ![d] = "done"]
       ELSE /\ heap' = TakeWaker(heap, whead[d])
            /\ wpc' = [wpc EXCEPT ![d] = "next"]
            /\ UNCHANGED <<owner, freed, dfree, whead>>
    /\ uaf' = (uaf \/ ~Valid(whead[d]))
    /\ UNCHANGED <<head, tail, rpc, rnode, rprev, nreg, wtail, allowed,
                   pending, wdue, wquiet>>
    /\ UNCHANGED setup

\* the values head.next.load() may return through ptr: the node's next when the pointer
\* is valid; through a dangling pointer, whatever the address holds now
NextValues(ptr) ==
    IF Valid(ptr) \/ owner[ptr[1]] # 0
    THEN {heap[ptr[1]].next}
    ELSE {Null} \cup {<<a, owner[a]>> : a \in {b \in Addr : owner[b] # 0}}

\* lines 134-143: next = head.next.load(); if next.is_null() { spin_loop(); continue };
\* head = Box::from_raw(next), which drops the node head held
WakeAll_Next(d) ==
    /\ wpc[d] = "next"
    /\ \E next \in NextValues(whead[d]) :
          IF IsNull(next)
          THEN UNCHANGED <<heap, owner, freed, dfree, whead, wpc>>
          ELSE /\ heap' = FreeHeap(heap, whead[d])
               /\ owner' = FreeOwner(whead[d])
               /\ freed' = FreeFreed(whead[d])
               /\ dfree' = (dfree \/ ~Valid(whead[d]))
               /\ whead' = [whead EXCEPT ![d] = next]
               /\ wpc' = [wpc EXCEPT ![d] = "wake"]
    /\ uaf' = (uaf \/ ~Valid(whead[d]))
    /\ UNCHANGED <<head, tail, rpc, rnode, rprev, nreg, wtail, allowed,
                   pending, wdue, winv, wquiet, invoked>>
    /\ UNCHANGED setup

----------------------------------------------------------------------------
Next ==
    \/ \E p \in Producers : Register_SwapTail(p)
    \/ \E p \in Producers : Register_Link(p)
    \/ \E p \in Producers : Register_Cas(p)
    \/ \E d \in Drainers : WakeAll_SwapTail(d)
    \/ \E d \in Drainers : WakeAll_SwapHead(d)
    \/ \E d \in Drainers : WakeAll_Wake(d)
    \/ \E d \in Drainers : WakeAll_Next(d)

Spec == Init /\ [][Next]_vars

\* a producer inside register keeps running
RegisterStep(p) == Register_Link(p) \/ Register_Cas(p)

\* a drainer inside wake_all keeps running
WakeAllStep(d) == WakeAll_SwapHead(d) \/ WakeAll_Wake(d) \/ WakeAll_Next(d)

\* fair scheduling of the threads that are inside a call
FairSpec ==
    /\ Spec
    /\ \A p \in Producers : WF_vars(RegisterStep(p))
    /\ \A d \in Drainers : WF_vars(WakeAllStep(d))

\* the stress scenario: moreover every producer makes all its register calls and the
\* consumer calls wake_all again and again
StressSpec ==
    /\ FairSpec
    /\ \A p \in Producers : WF_vars(Register_SwapTail(p))
    /\ \A d \in Drainers : WF_vars(WakeAll_SwapTail(d))

----------------------------------------------------------------------------
(* Drop for WakerQueue, lines 22-41.  drop takes &mut self: no register and no wake_all
   is in flight when it begins, and none begins afterwards. *)

\* lines 24-25: head = self.head.swap(null); tail = self.tail.load()
Drop_Begin ==
    /\ dpc = "live"
    /\ \A p \in Producers : ~InFlightReg(p)
    /\ \A d \in Drainers : ~InFlightWake(d)
    /\ dhead' = head
    /\ head' = Null
    /\ dtail' = tail
    /\ dlive' = {owner[a] : a \in {b \in Addr : owner[b] # 0}}
    /\ dpc' = "walk"
    /\ UNCHANGED <<tail, heap, owner, rpc, rnode, rprev, nreg, wpc, wtail, whead,
                   allowed, callers, dfreed, ghost>>

\* lines 27-35: while head != tail { if head.is_null() { unreachable!() };
\* tmp = Box::from_raw(head); head = tmp.next.swap(null); drop(tmp) }
Drop_Walk ==
    /\ dpc = "walk"
    /\ ~SameAddr(dhead, dtail)
    /\ IF IsNull(dhead)
       THEN /\ dpc' = "panic"
            /\ UNCHANGED <<dhead, heap, owner, freed, dfreed, uaf, dfree>>
       ELSE /\ \E next \in NextValues(dhead) : dhead' = next
            /\ heap' = FreeHeap(heap, dhead)
            /\ owner' = FreeOwner(dhead)
            /\ freed' = FreeFreed(dhead)
            /\ dfreed' = IF Valid(dhead) THEN dfreed \cup {dhead[2]} ELSE dfreed
            /\ uaf' = (uaf \/ ~Valid(dhead))
            /\ dfree' = (dfree \/ ~Valid(dhead))
            /\ UNCHANGED dpc
    /\ UNCHANGED <<head, tail, rpc, rnode, rprev, nreg, wpc, wtail, whead, allowed,
                   callers, dtail, dlive, pending, wdue, winv, wquiet, invoked>>

\* mutant: the node left when the walk reaches the tail is not deallocated
M_Drop_End_Leak ==
    /\ dpc = "walk"
    /\ SameAddr(dhead, dtail)
    /\ dpc' = "dropped"
    /\ UNCHANGED <<head, tail, heap, owner, rpc, rnode, rprev, nreg, wpc, wtail, whead,
                   allowed, callers, dhead, dtail, dlive, dfreed, ghost>>

\* lines 37-39: if !head.is_null() { drop(Box::from_raw(head)) }
Drop_End ==
    /\ dpc = "walk"
    /\ SameAddr(dhead, dtail)
    /\ IF IsNull(dhead)
       THEN UNCHANGED <<heap, owner, freed, dfreed, dfree>>
       ELSE /\ heap' = FreeHeap(heap, dhead)
            /\ owner' = FreeOwner(dhead)
            /\ freed' = FreeFreed(dhead)
            /\ dfreed' = IF Valid(dhead) THEN dfreed \cup {dhead[2]} ELSE dfreed
            /\ dfree' = (dfree \/ ~Valid(dhead))
    /\ dpc' = "dropped"
    /\ UNCHANGED <<head, tail, rpc, rnode, rprev, nreg, wpc, wtail, whead, allowed,
                   callers, dhead, dtail, dlive, pending, wdue, winv, wquiet, invoked, uaf>>

DropNext ==
    \/ Next
    \/ Drop_Begin
    \/ Drop_Walk
    \/ Drop_End

\* wake_all called by several threads at once
MultiSpec == MultiInit /\ [][Next]_vars

\* one producer thread, one drainer thread, fairly scheduled while inside a call
SoloSpec ==
    /\ SoloInit /\ [][Next]_vars
    /\ \A p \in Producers : WF_vars(RegisterStep(p))
    /\ \A d \in Drainers : WF_vars(WakeAllStep(d))

\* register and wake_all calls, and then the teardown of the queue
DropSpec == Init /\ [][DropNext]_vars

----------------------------------------------------------------------------
Range(s) == {s[i] : i \in 1..Len(s)}

\* how often c occurs in the sequence s
Occurrences(c, s) == Cardinality({i \in 1..Len(s) : s[i] = c})

(* C1: every callback whose register did its tail swap before a wake_all's tail swap
   (and after the one before it) is invoked by that wake_all call, and no more than
   once by it. *)
C1_InvokedByThatCall ==
    /\ [](\A d \in Drainers : \A c \in Cb : Occurrences(c, winv[d]) <= 1)
    /\ \A d \in Drainers : \A c \in Cb :
          (InFlightWake(d) /\ c \in Range(wdue[d])) ~> (c \in Range(winv[d]))

(* C2: under fair scheduling every wake_all call that is in flight eventually returns. *)
C2_WakeAllReturns == \A d \in Drainers : InFlightWake(d) ~> (wpc[d] = "done")

(* C3: no callback is invoked more than once over the lifetime of the queue. *)
C3_InvokedAtMostOnce == \A c \in Cb : invoked[c] <= 1

\* two successive wake_all calls have each invoked a callback
C3_Witness ==
    \E c1, c2 \in Cb :
        /\ invoked[c1] = 1 /\ c1 \notin Range(winv[1])
        /\ invoked[c2] = 1 /\ c2 \in Range(winv[1])

(* C4: a callback whose register did its tail swap after the tail swap of the latest
   wake_all call is not invoked by that call and its node stays allocated. *)
C4_LaterCallbacksStay ==
    \A c \in Range(pending) :
        /\ \A d \in Drainers : c \notin Range(winv[d])
        /\ c \notin freed

(* C5: when a wake_all call ran with no register call in flight from its tail swap to
   its return, it has invoked exactly the callbacks registered since the previous
   wake_all, each once, in the order of their tail swaps, and (until a register follows)
   head and tail are null. *)
C5_QuietDrain ==
    \A d \in Drainers :
        wpc[d] = "done" /\ wquiet[d] =>
            /\ winv[d] = wdue[d]
            /\ (pending = <<>> => IsNull(head) /\ IsNull(tail))

\* a quiet wake_all has returned after draining two or more callbacks
C5_Witness ==
    /\ wpc[1] = "done" /\ wquiet[1] /\ pending = <<>>
    /\ Len(wdue[1]) >= 2

(* C6: in the stress scenario the queue eventually has invoked every one of the
   MaxReg registered callbacks exactly once and freed every node. *)
C6_AllInvokedAndFreed == <>(\A c \in Cb : invoked[c] = 1 /\ c \in freed)

(* C7: under fair scheduling every register call that is in flight eventually returns. *)
C7_RegisterReturns == \A p \in Producers : InFlightReg(p) ~> (rpc[p] = "idle")

\* a register call is in its compare-and-swap loop while head is not null
C7_Witness == \E p \in Producers : rpc[p] = "cas" /\ ~IsNull(head)

(* C8: no node is deallocated twice and no node is read or written after it was
   deallocated. *)
C8_NoUseAfterFree == ~uaf /\ ~dfree

\* nodes were deallocated, and the drainer waits for the next of the very node a register
\* call is about to store into
C8_Witness ==
    /\ freed # {}
    /\ wpc[1] = "next"
    /\ \E p \in Producers : rpc[p] = "link" /\ rprev[p] = whead[1]

(* C9: a wake_all call that captures a null tail returns at once: it invokes no callback,
   deallocates no node, leaves head as it is and leaves tail null. *)
C9_EmptyReturnsAtOnce ==
    [][\A d \in Drainers :
          WakeAll_SwapTail(d) /\ IsNull(tail) =>
              /\ wpc'[d] = "done"
              /\ invoked' = invoked /\ winv'[d] = <<>>
              /\ owner' = owner /\ freed' = freed /\ heap' = heap
              /\ head' = head
              /\ IsNull(tail')]_vars

\* a wake_all call on a queue that was used and drained has captured a null tail
C9_Witness == wpc[1] = "done" /\ IsNull(wtail[1]) /\ freed # {}

(* C10: when a wake_all call has returned and no register did its tail swap since that
   call's tail swap, head and tail are both null. *)
C10_EmptyOnReturn ==
    \A d \in Drainers :
        wpc[d] = "done" /\ pending = <<>> => IsNull(head) /\ IsNull(tail)

\* a wake_all that raced with a register call has returned with callbacks invoked
C10_Witness == wpc[1] = "done" /\ pending = <<>> /\ ~wquiet[1] /\ winv[1] # <<>>

(* C11: drop, run when no call is in flight, deallocates exactly the nodes that were
   allocated when it began (the registered callbacks not yet invoked), each once, and
   invokes none of their callbacks. *)
C11_DropFreesAll ==
    dpc = "dropped" =>
        /\ dfreed = dlive
        /\ \A a \in Addr : owner[a] = 0
        /\ ~dfree /\ ~uaf
        /\ \A c \in dlive : invoked[c] = 0

\* drop has freed two or more nodes of a queue that wake_all had drained before
C11_Witness ==
    /\ dpc = "dropped"
    /\ Cardinality(dlive) >= 2
    /\ \E c \in Cb : invoked[c] = 1

(* C12: the walk of drop never meets a null pointer before it reaches the tail it read:
   unreachable!("failed to deallocate WakerQueue") is not hit. *)
C12_DropNeverPanics == dpc # "panic"

\* drop is in its walk, past the first node and not yet at the tail
C12_Witness == dpc = "walk" /\ dfreed # {} /\ ~SameAddr(dhead, dtail)

(* C13: with several threads in wake_all at once, together with register calls, no
   callback is invoked more than once and no node is deallocated twice or touched after
   it was deallocated. *)
C13_ConcurrentWakeAllSafe ==
    /\ \A c \in Cb : invoked[c] <= 1
    /\ ~uaf /\ ~dfree

\* two wake_all calls are in flight at once, each holding a node
C13_Witness ==
    /\ wpc[1] \in {"wake", "next"} /\ wpc[2] \in {"wake", "next"}
    /\ \E c \in Cb : invoked[c] = 1

(* C14: whenever wake_all observes a pointer to a node that register published (the tail
   it swaps out, the head it swaps out, the next it loads), the publishing operation of
   register (its tail swap, its head compare-and-swap, its store into next) is at least
   release and the observing operation is at least acquire, so that the contents
   register gave the node are visible to the thread that dereferences it. *)
C14_SafePublication ==
    [][\A d \in Drainers :
          /\ WakeAll_SwapTail(d) /\ ~IsNull(tail) =>
                Synchronizes(Ord_Register_TailSwap, Ord_WakeAll_TailSwap)
          /\ WakeAll_SwapHead(d) /\ ~IsNull(head) =>
                Synchronizes(Ord_Register_HeadCas, Ord_WakeAll_HeadSwap)
          /\ WakeAll_Next(d) /\ whead'[d] # whead[d] =>
                Synchronizes(Ord_Register_NextStore, Ord_WakeAll_NextLoad)]_vars

\* the node that follows ptr in the chain: the one its next points to or, while next is
\* still null, the one a register call that got ptr as previous tail is about to store
Succ(ptr) ==
    IF ~Valid(ptr) THEN Null
    ELSE IF ~IsNull(heap[ptr[1]].next) THEN heap[ptr[1]].next
    ELSE IF \E p \in Producers : rpc[p] = "link" /\ rprev[p] = ptr
         THEN rnode[CHOOSE p \in Producers : rpc[p] = "link" /\ rprev[p] = ptr]
         ELSE Null

\* following the chain from one node reaches the other in at most n steps
RECURSIVE Reaches(_, _, _)
Reaches(from, to, n) ==
    /\ ~IsNull(from)
    /\ \/ from = to
       \/ n > 0 /\ Reaches(Succ(from), to, n - 1)

(* C15: the node a wake_all call holds, from the non-null head its head swap obtained
   on, lies on the chain that ends at the tail the call captured, and the callbacks the
   call takes are among those registered before its tail swap. *)
C15_HeadLeadsToCapturedTail ==
    \A d \in Drainers :
        wpc[d] \in {"wake", "next"} =>
            /\ Reaches(whead[d], wtail[d], NumAddr)
            /\ Range(winv[d]) \subseteq Range(wdue[d])

(* C16: whenever tail is not null and no register call is in flight, following next
   from head reaches the node tail points to. *)
C16_HeadReachesTail ==
    (~IsNull(tail) /\ \A p \in Producers : ~InFlightReg(p)) =>
        Reaches(head, tail, NumAddr)

(* C17: if tail is null then head is null, unless a wake_all call has swapped tail to
   null and has not yet obtained a non-null head. *)
C17_NullTailNullHead ==
    IsNull(tail) => IsNull(head) \/ \E d \in Drainers : wpc[d] = "head"

\* the exception: tail is null, head is not, and wake_all is about to swap head
C17_Witness == IsNull(tail) /\ ~IsNull(head) /\ wpc[1] = "head"

(* C18: whenever the head swap of a wake_all call that captured a non-null tail finds
   head null, some register call has done its tail swap, seen a null previous tail, and
   has not yet completed its compare-and-swap of head. *)
C18_NullHeadMeansRegisterInFlight ==
    \A d \in Drainers :
        wpc[d] = "head" /\ ~IsNull(wtail[d]) /\ IsNull(head) =>
            \E p \in Producers : rpc[p] = "cas" /\ IsNull(rprev[p])

\* wake_all is at its head swap with head null
C18_Witness == wpc[1] = "head" /\ IsNull(head) /\ ~IsNull(wtail[1])

(* C19: with a single producer thread and a single drainer thread, every wake_all call
   returns under fair scheduling, and it has then invoked exactly the callbacks whose
   tail swap came before its own and after that of the wake_all before it, each once;
   while it runs it invokes no other callback. *)
C19_SoloDrain ==
    /\ \A d \in Drainers : InFlightWake(d) ~> (wpc[d] = "done")
    /\ [](\A d \in Drainers :
            /\ wpc[d] = "done" => winv[d] = wdue[d]
            /\ Range(winv[d]) \subseteq Range(wdue[d]))

\* the drainer waits for the next of the node the producer is about to store into
C19_Witness == wpc[1] = "next" /\ rpc[1] = "link" /\ rprev[1] = whead[1]

(* C20: the next link of a node changes only from null to a non-null node, and only by
   the store of the register call whose tail swap returned that node as the previous
   tail: it is written at most once. *)
C20_NextWrittenOnce ==
    [][\A a \in Addr :
          (owner[a] # 0 /\ owner'[a] = owner[a] /\ heap'[a].next # heap[a].next) =>
              /\ IsNull(heap[a].next)
              /\ ~IsNull(heap'[a].next)
              /\ \E p \in Producers :
                    /\ rpc[p] = "link" /\ rpc'[p] = "idle"
                    /\ rprev[p] = <<a, owner[a]>>
                    /\ heap'[a].next = rnode[p]]_vars

\* a node is linked to its successor and another register call is about to link the next
C20_Witness ==
    /\ \E a \in Addr : owner[a] # 0 /\ ~IsNull(heap[a].next)
    /\ \E p \in Producers : rpc[p] = "link"

====
